---- MODULE Spec2Model ----
(***************************************************************************)
(* Model of fire_pollution_analysis.py: a batch pipeline that loads a fire *)
(* table and a pollution table, normalises them, joins them on state,      *)
(* keeps the pairs within 7 days and 20 miles of each other, drops rows    *)
(* without AQI measurements, derives two columns, restricts the fire year  *)
(* and start date, and overwrites a parquet destination.                   *)
(*                                                                         *)
(* A data frame is a sequence of records (a row per element).  A nullable  *)
(* column value is <<>> (SQL NULL) or <<v>>.  A date is the number of days *)
(* since 1970-01-01, as in the engine's DateType.  An angle is an integer  *)
(* number of hundredths of a degree.  A double is a record [nan, v]; the   *)
(* trigonometric values are fixed-point numbers with eight decimals, every *)
(* product rounded to nearest, as a floating-point product is.             *)
(***************************************************************************)
EXTENDS Integers, Sequences, FiniteSets, TLC

VARIABLES pc, fire_csv, pollution_csv, df_fires, df_pollution, df_joined,
          df_filtered, filtered_df_20, filtered_years_df, output

vars == <<pc, fire_csv, pollution_csv, df_fires, df_pollution, df_joined,
          df_filtered, filtered_df_20, filtered_years_df, output>>

frames == <<df_fires, df_pollution, df_joined, df_filtered, filtered_df_20,
            filtered_years_df>>

----------------------------------------------------------------------------
(* Bounds of the model: the number of rows of each input file. *)
MaxFires == 2

MaxPollution == 2

----------------------------------------------------------------------------
(* SQL values *)
NULL == <<>>

Some(v) == <<v>>

IsNull(x) == x = <<>>

Val(x) == x[1]

(* Three-valued SQL booleans. *)
Bool3(b) == IF b THEN "true" ELSE "false"

And3(a, b) ==
    IF a = "false" \/ b = "false" THEN "false"
    ELSE IF a = "null" \/ b = "null" THEN "null"
    ELSE "true"

Ge3(a, b) == IF IsNull(a) \/ IsNull(b) THEN "null" ELSE Bool3(Val(a) >= Val(b))

Le3(a, b) == IF IsNull(a) \/ IsNull(b) THEN "null" ELSE Bool3(Val(a) <= Val(b))

(* DataFrame.filter keeps the rows whose condition is true; a null *)
(* condition drops the row, as a false one does.                   *)
Filter(df, Cond(_)) ==
    LET Keep(row) == Cond(row) = "true"
    IN  SelectSeq(df, Keep)

(* DataFrame.withColumn / select: one new row per row. *)
Map(df, F(_)) == [i \in 1..Len(df) |-> F(df[i])]

----------------------------------------------------------------------------
(* Dates *)
Abs(n) == IF n < 0 THEN 0 - n ELSE n

IsLeap(y) == (y % 4 = 0 /\ y % 100 # 0) \/ y % 400 = 0

DaysInMonth(y, m) ==
    IF m = 2 THEN (IF IsLeap(y) THEN 29 ELSE 28)
    ELSE IF m \in {4, 6, 9, 11} THEN 30 ELSE 31

(* Days since 1970-01-01 of the civil date y-m-d. *)
DaysFromCivil(y, m, d) ==
    LET yy  == IF m <= 2 THEN y - 1 ELSE y
        era == yy \div 400
        yoe == yy - era * 400
        mp  == IF m > 2 THEN m - 3 ELSE m + 9
        doy == (153 * mp + 2) \div 5 + d - 1
        doe == yoe * 365 + yoe \div 4 - yoe \div 100 + doy
    IN  era * 146097 + doe - 719468

(* The month (1..12) of the date that is `days` days after 1970-01-01. *)
MonthOfDays(days) ==
    LET z   == days + 719468
        era == z \div 146097
        doe == z - era * 146097
        yoe == (doe - doe \div 1460 + doe \div 36524 - doe \div 146096) \div 365
        doy == doe - (365 * yoe + yoe \div 4 - yoe \div 100)
        mp  == (5 * doy + 2) \div 153
    IN  IF mp < 10 THEN mp + 3 ELSE mp - 9

Date(y, m, d) == Some(DaysFromCivil(y, m, d))

(* to_date(col, "M/d/yy"): a text <<M, d, yy>> that is a calendar date of *)
(* the century 2000 parses to it; anything else yields NULL.              *)
to_date_Mdyy(s) ==
    IF Len(s) # 3 THEN NULL
    ELSE LET m == s[1]
             d == s[2]
             y == 2000 + s[3]
         IN  IF /\ m \in 1..12
                /\ s[3] \in 0..99
                /\ d >= 1
                /\ d <= DaysInMonth(y, m)
             THEN Date(y, m, d)
             ELSE NULL

(* to_date(col) of a column that holds dates already. *)
to_date(d) == d

(* Mutant: the arguments are swapped, the sign is reversed. *)
datediff_Swapped(end, start) ==
    IF IsNull(end) \/ IsNull(start) THEN NULL ELSE Some(Val(start) - Val(end))

(* datediff(end, start): end - start in whole days, NULL if either is. *)
datediff(end, start) ==
    IF IsNull(end) \/ IsNull(start) THEN NULL ELSE Some(Val(end) - Val(start))

(* month(col) *)
month(d) == IF IsNull(d) THEN NULL ELSE Some(MonthOfDays(Val(d)))

(* col + INTERVAL n DAY *)
AddDays(d, n) == IF IsNull(d) THEN NULL ELSE Some(Val(d) + n)

----------------------------------------------------------------------------
(* Fixed-point arithmetic: a real x in [-2, 2] is the integer x * ONE. *)
LIMB == 100 * 100

ONE == LIMB * LIMB

Sign(n) == IF n < 0 THEN 0 - 1 ELSE 1

(* a * b, rounded to the nearest multiple of 1/ONE.  The operands are *)
(* split in two limbs so that no intermediate value exceeds 32 bits.  *)
MulFix(a, b) ==
    LET x    == Abs(a)
        y    == Abs(b)
        xh   == x \div LIMB
        xl   == x % LIMB
        yh   == y \div LIMB
        yl   == y % LIMB
        mid  == xh * yl + xl * yh
        rest == (mid % LIMB) * LIMB + xl * yl
    IN  Sign(a) * Sign(b) * (xh * yh + mid \div LIMB + (rest + ONE \div 2) \div ONE)

(* The largest r in lo..hi with r * r <= n, given lo * lo <= n. *)
RECURSIVE IsqrtIn(_, _, _)
IsqrtIn(n, lo, hi) ==
    IF lo >= hi THEN lo
    ELSE LET m == (lo + hi + 1) \div 2
         IN  IF m * m <= n THEN IsqrtIn(n, m, hi) ELSE IsqrtIn(n, lo, m - 1)

Isqrt(n) == IsqrtIn(n, 0, 46340)

(* A double: not-a-number, or a number v. *)
NaN == [nan |-> TRUE, v |-> 0]

Num(v) == [nan |-> FALSE, v |-> v]

(* sin(radians(d)) and cos(radians(d)) for d hundredths of a degree, to *)
(* eight decimals, on the coordinates the input files of the model use. *)
sin_radians(d) ==
    CASE d = 3400 -> 55919290
      [] d = 3405 -> 55991616
      [] d = 3428 -> 56323765
      [] d = 3429 -> 56338186
      [] d = 3710 -> 60320799
      [] d = 4000 -> 64278761

cos_radians(d) ==
    CASE Abs(d) = 0    -> 100000000
      [] Abs(d) = 5    -> 99999962
      [] Abs(d) = 395  -> 99762454
      [] Abs(d) = 400  -> 99756405
      [] Abs(d) = 3400 -> 82903757
      [] Abs(d) = 3405 -> 82854927
      [] Abs(d) = 3428 -> 82629495
      [] Abs(d) = 3429 -> 82619664
      [] Abs(d) = 3710 -> 79758393
      [] Abs(d) = 4000 -> 76604444

(* acos(x) in micro-radians: not-a-number outside [-1, 1]; inside, the   *)
(* expansion acos(1 - u) = sqrt(2u) * (1 + u/12 + ...), which is exact   *)
(* to four digits for the angles below a tenth of a radian of the model. *)
acos(x) ==
    IF x > ONE \/ x < 0 - ONE THEN NaN
    ELSE LET u == ONE - x
             t == IF u <= 100000 THEN Isqrt(20000 * u) ELSE 100 * Isqrt(2 * u)
         IN  Num(t + ((t \div 1000) * (u \div 1000)) \div 1200)

(* Earth radius, in tenths of a mile. *)
R == 39588

(* haversine(lat1, lon1, lat2, lon2): the great-circle distance in     *)
(* thousandths of a mile; NULL if a coordinate is NULL, NaN if the      *)
(* argument of acos is outside [-1, 1].  The source does not clamp it.  *)
haversine(lat1, lon1, lat2, lon2) ==
    IF IsNull(lat1) \/ IsNull(lon1) \/ IsNull(lat2) \/ IsNull(lon2) THEN NULL
    ELSE LET arg == MulFix(sin_radians(Val(lat1)), sin_radians(Val(lat2)))
                    + MulFix(MulFix(cos_radians(Val(lat1)), cos_radians(Val(lat2))),
                             cos_radians(Val(lon2) - Val(lon1)))
             a   == acos(arg)
         IN  IF a.nan THEN Some(NaN)
             ELSE Some(Num((a.v \div LIMB) * R + ((a.v % LIMB) * R) \div LIMB))

(* distance < miles: NULL for a NULL distance, false for NaN (which the *)
(* engine orders above every number).                                   *)
LtMiles(dist, miles) ==
    IF IsNull(dist) THEN "null"
    ELSE IF Val(dist).nan THEN "false"
    ELSE Bool3(Val(dist).v < miles * 1000)

----------------------------------------------------------------------------
(* Pollution preprocessing *)

(* withColumn("Date_Local", to_date(col("Date Local"), "M/d/yy")) *)
ParseDateLocal(r) == r @@ [Date_Local |-> to_date_Mdyy(r.DateLocal)]

(* dropna(subset=['Final_Latitude', 'Final_Longitude']) *)
HasCoordinates(r) ==
    Bool3(~IsNull(r.Final_Latitude) /\ ~IsNull(r.Final_Longitude))

(* col("State").isin(['Arizona', 'California']) *)
RelevantState(r) == Bool3(r.State \in {"Arizona", "California"})

(* Fire preprocessing *)
state_mapping == << <<"CA", "California">>, <<"AZ", "Arizona">> >>

(* Mutant: the otherwise() branch is missing, a state that does not match *)
(* the entry becomes empty.                                              *)
MapState_NoOtherwise(entry, r) ==
    [r EXCEPT !.STATE = IF @ = entry[1] THEN entry[2] ELSE ""]

(* when(col("STATE") == abbrev, full_name).otherwise(col("STATE")) *)
MapState(entry, r) ==
    [r EXCEPT !.STATE = IF @ = entry[1] THEN entry[2] ELSE @]

ApplyEntry(df, i) ==
    LET F(r) == MapState(state_mapping[i], r) IN Map(df, F)

(* The three renames; to_date leaves the other columns alone. *)
RenameFire(r) ==
    [Fire_ID    |-> r._c0,
     Fire_State |-> r.STATE,
     FIRE_YEAR  |-> r.FIRE_YEAR,
     start_date |-> r.start_date,
     LATITUDE   |-> r.LATITUDE,
     LONGITUDE  |-> r.LONGITUDE]

(* Mutant: a join without its condition, the cross product. *)
JoinCond_Cross(f, p) == "true"

(* df_fires["Fire_State"] == df_pollution["State"] *)
JoinCond(f, p) == Bool3(f.Fire_State = p.State)

(* Inner join: one row per pair of rows that satisfies the condition. *)
RECURSIVE Join(_, _)
Join(fs, ps) ==
    IF fs = <<>> THEN <<>>
    ELSE LET f        == Head(fs)
             Match(p) == JoinCond(f, p)
             Pair(p)  == f @@ p
         IN  Map(Filter(ps, Match), Pair) \o Join(Tail(fs), ps)

(* Mutant: the two comparisons are strict, the days -7 and +7 are lost. *)
WindowCond_Strict(r) ==
    And3(Ge3(r.Date_Local, AddDays(r.start_date, 0 - 6)),
         Le3(r.Date_Local, AddDays(r.start_date, 6)))

(* Date_Local within 7 days of start_date, both ends included. *)
WindowCond(r) ==
    And3(Ge3(r.Date_Local, AddDays(r.start_date, 0 - 7)),
         Le3(r.Date_Local, AddDays(r.start_date, 7)))

WithDistance(r) ==
    r @@ [distance_miles |->
             haversine(r.LATITUDE, r.LONGITUDE, r.Final_Latitude, r.Final_Longitude)]

(* Mutant: the radius is 21 miles. *)
NearCond_21(r) == LtMiles(r.distance_miles, 21)

(* F.col("distance_miles") < 20 *)
NearCond(r) == LtMiles(r.distance_miles, 20)

(* Mutant: how='all', a row is dropped only when both columns are NULL. *)
HasAQI_All(r) == Bool3(~IsNull(r.CO_AQI) \/ ~IsNull(r.SO2_AQI))

(* na.drop(how='any', subset=['CO AQI', 'SO2 AQI']) keeps a row when *)
(* none of the two columns is NULL.                                  *)
HasAQI(r) == Bool3(~IsNull(r.CO_AQI) /\ ~IsNull(r.SO2_AQI))

DateCalculations(r) ==
    LET sd == to_date(r.start_date)
        dl == to_date(r.Date_Local)
    IN  [r EXCEPT !.start_date = sd, !.Date_Local = dl]
        @@ [date_diff_fire_pollution |-> datediff(dl, sd),
            FIRE_MONTH               |-> month(sd)]

(* Mutant: the year restriction is taken for redundant and left out. *)
YearCond_Skipped(r) == "true"

(* FIRE_YEAR.between(2008, 2014) *)
YearCond(r) ==
    And3(Ge3(r.FIRE_YEAR, Some(2008)), Le3(r.FIRE_YEAR, Some(2014)))

(* start_date >= "2014-05-02" and start_date <= "2014-06-02" *)
RangeCond(r) ==
    And3(Ge3(r.start_date, Date(2014, 5, 2)), Le3(r.start_date, Date(2014, 6, 2)))

----------------------------------------------------------------------------
(* The stages, frame to frame. *)
RECURSIVE Distinct(_)
Distinct(df) ==
    IF df = <<>> THEN <<>>
    ELSE LET rest == Distinct(SubSeq(df, 1, Len(df) - 1))
             last == df[Len(df)]
         IN  IF last \in {rest[i] : i \in DOMAIN rest} THEN rest
             ELSE Append(rest, last)

WithinWindow(df) == Filter(df, WindowCond)

WithDistances(df) == Map(df, WithDistance)

Within20Miles(df) == Filter(df, NearCond)

(* Mutant: the drop of incomplete rows also drops duplicate rows. *)
DropMissing_Distinct(df) == Distinct(Filter(df, HasAQI))

DropMissing(df) == Filter(df, HasAQI)

WithDateColumns(df) == Map(df, DateCalculations)

YearsBetween(df) == Filter(df, YearCond)

StartDateBetween(df) == Filter(df, RangeCond)

----------------------------------------------------------------------------
(* The parquet destination.  `run` tells which run wrote it; the rows of  *)
(* an earlier run are not modelled.  `complete` is the commit marker.     *)
NoDataset == [exists |-> FALSE, complete |-> FALSE, run |-> "none", rows |-> <<>>]

PreviousDataset ==
    [exists |-> TRUE, complete |-> TRUE, run |-> "previous", rows |-> <<>>]

----------------------------------------------------------------------------
(* Input files.  A fire row and a pollution row of the files: *)
Fire(st, yr, sd, lat, lon) ==
    [STATE |-> st, FIRE_YEAR |-> yr, start_date |-> sd,
     LATITUDE |-> lat, LONGITUDE |-> lon]

Reading(st, dl, lat, lon, co, so2) ==
    [State |-> st, DateLocal |-> dl, Final_Latitude |-> lat,
     Final_Longitude |-> lon, CO_AQI |-> co, SO2_AQI |-> so2]

(* The fire and the reading of the scenario: a fire at (34.0, -118.0) that *)
(* starts on 2014-05-10, a reading at (34.05, -118.05) on 2014-05-12.      *)
FireAt(st, yr, sd) == Fire(st, yr, sd, Some(3400), Some(0 - 11800))

ReadingOn(st, dl) ==
    Reading(st, dl, Some(3405), Some(0 - 11805), Some(5), Some(2))

(* The files are drawn from families of rows; each family varies the *)
(* columns one stage of the pipeline looks at.                       *)
StateFamily ==
    [fires    |-> {FireAt(st, Some(2014), Date(2014, 5, 10)) :
                      st \in {"CA", "AZ", "NV", "California"}},
     readings |-> {ReadingOn(st, <<5, 12, 14>>) :
                      st \in {"California", "Arizona", "Nevada"}}
                  \cup {ReadingOn("California", <<5, 18, 14>>)}]

WindowFamily ==
    [fires    |-> {FireAt("CA", Some(2014), sd) : sd \in {NULL, Date(2014, 5, 10)}},
     readings |-> {ReadingOn("California", dl) :
                      dl \in {<<5, 2, 14>>, <<5, 3, 14>>, <<5, 10, 14>>,
                              <<5, 17, 14>>, <<5, 18, 14>>, <<13, 1, 14>>}}]

YearFamily ==
    [fires    |-> {FireAt("CA", yr, Date(2014, 5, 10)) :
                      yr \in {NULL, Some(2007), Some(2008), Some(2015)}}
                  \cup {FireAt("CA", Some(2014), Date(2014, 5, 2))},
     readings |-> {ReadingOn("California", <<5, 3, 14>>)}]

RangeFamily ==
    [fires    |-> {FireAt("CA", Some(2014), sd) :
                      sd \in {Date(2014, 5, 1), Date(2014, 5, 2),
                              Date(2014, 6, 2), Date(2014, 6, 3)}},
     readings |-> {ReadingOn("California", <<5, 3, 14>>),
                   ReadingOn("California", <<6, 4, 14>>)}]

DistanceFamily ==
    [fires    |-> {Fire("CA", Some(2014), Date(2014, 5, 10), lat, Some(0 - 11800)) :
                      lat \in {NULL, Some(3400)}}
                  \cup {Fire("CA", Some(2014), Date(2014, 5, 10), Some(3400), NULL)},
     readings |-> {Reading("California", <<5, 12, 14>>, Some(c[1]), Some(c[2]),
                           Some(5), Some(2)) :
                      c \in {<<3405, 0 - 11805>>, <<3428, 0 - 11800>>,
                             <<3429, 0 - 11800>>, <<4000, 0 - 12200>>}}]

SamePointFamily ==
    [fires    |-> {Fire("CA", Some(2014), Date(2014, 5, 10), Some(lat), Some(0 - 11800)) :
                      lat \in {3400, 3710}},
     readings |-> {Reading("California", <<5, 12, 14>>, Some(lat), Some(0 - 11800),
                           Some(5), Some(2)) : lat \in {3400, 3710}}
                  \cup {Reading("California", <<5, 12, 14>>, NULL, Some(0 - 11800),
                                Some(5), Some(2)),
                        Reading("California", <<5, 12, 14>>, Some(3400), NULL,
                                Some(5), Some(2))}]

QualityFamily ==
    [fires    |-> {FireAt("CA", Some(2014), Date(2014, 5, 10))},
     readings |-> {Reading("California", <<5, 12, 14>>, Some(3405), Some(0 - 11805),
                           co, so2) :
                      co \in {NULL, Some(5)}, so2 \in {NULL, Some(2)}}]

Families ==
    {StateFamily, WindowFamily, YearFamily, RangeFamily, DistanceFamily, SamePointFamily,
     QualityFamily}

(* The files of at most n rows drawn from the set of rows S. *)
Files(S, n) == UNION {[1..k -> S] : k \in 0..n}

(* The fire file has an unnamed first column, the row number. *)
WithRowNumbers(rows) == [i \in 1..Len(rows) |-> rows[i] @@ [_c0 |-> i - 1]]

----------------------------------------------------------------------------
Init ==
    /\ pc = "load"
    /\ \E fam \in Families :
          /\ fire_csv \in {WithRowNumbers(f) : f \in Files(fam.fires, MaxFires)}
          /\ pollution_csv \in Files(fam.readings, MaxPollution)
    /\ df_fires = <<>>
    /\ df_pollution = <<>>
    /\ df_joined = <<>>
    /\ df_filtered = <<>>
    /\ filtered_df_20 = <<>>
    /\ filtered_years_df = <<>>
    /\ output \in {NoDataset, PreviousDataset}

(* spark.read.csv of the two files *)
LoadCSV ==
    /\ pc = "load"
    /\ df_fires' = fire_csv
    /\ df_pollution' = pollution_csv
    /\ pc' = "pollution_dates"
    /\ UNCHANGED <<fire_csv, pollution_csv, df_joined, df_filtered,
                   filtered_df_20, filtered_years_df, output>>

PreprocessPollution ==
    /\ pc = "pollution_dates"
    /\ df_pollution' = Filter(Map(df_pollution, ParseDateLocal), HasCoordinates)
    /\ pc' = "pollution_states"
    /\ UNCHANGED <<fire_csv, pollution_csv, df_fires, df_joined, df_filtered,
                   filtered_df_20, filtered_years_df, output>>

FilterRelevantStates ==
    /\ pc = "pollution_states"
    /\ df_pollution' = Filter(df_pollution, RelevantState)
    /\ pc' = "map_1"
    /\ UNCHANGED <<fire_csv, pollution_csv, df_fires, df_joined, df_filtered,
                   filtered_df_20, filtered_years_df, output>>

(* One iteration of the loop over state_mapping.items(). *)
MapPc(i) == IF i = 1 THEN "map_1" ELSE "map_2"

StandardizeState(i) ==
    /\ pc = MapPc(i)
    /\ df_fires' = ApplyEntry(df_fires, i)
    /\ pc' = IF i < Len(state_mapping) THEN MapPc(i + 1) ELSE "rename"
    /\ UNCHANGED <<fire_csv, pollution_csv, df_pollution, df_joined, df_filtered,
                   filtered_df_20, filtered_years_df, output>>

RenameFireColumns ==
    /\ pc = "rename"
    /\ df_fires' = Map(df_fires, RenameFire)
    /\ pc' = "join"
    /\ UNCHANGED <<fire_csv, pollution_csv, df_pollution, df_joined, df_filtered,
                   filtered_df_20, filtered_years_df, output>>

JoinOnState ==
    /\ pc = "join"
    /\ df_joined' = Join(df_fires, df_pollution)
    /\ pc' = "window"
    /\ UNCHANGED <<fire_csv, pollution_csv, df_fires, df_pollution, df_filtered,
                   filtered_df_20, filtered_years_df, output>>

FilterWindow ==
    /\ pc = "window"
    /\ df_filtered' = WithinWindow(df_joined)
    /\ pc' = "distance"
    /\ UNCHANGED <<fire_csv, pollution_csv, df_fires, df_pollution, df_joined,
                   filtered_df_20, filtered_years_df, output>>

CalculateDistance ==
    /\ pc = "distance"
    /\ df_filtered' = WithDistances(df_filtered)
    /\ pc' = "filter_20"
    /\ UNCHANGED <<fire_csv, pollution_csv, df_fires, df_pollution, df_joined,
                   filtered_df_20, filtered_years_df, output>>

FilterDistance ==
    /\ pc = "filter_20"
    /\ filtered_df_20' = Within20Miles(df_filtered)
    /\ pc' = "dropna"
    /\ UNCHANGED <<fire_csv, pollution_csv, df_fires, df_pollution, df_joined,
                   df_filtered, filtered_years_df, output>>

DropMissingAQI ==
    /\ pc = "dropna"
    /\ filtered_df_20' = DropMissing(filtered_df_20)
    /\ pc' = "dates"
    /\ UNCHANGED <<fire_csv, pollution_csv, df_fires, df_pollution, df_joined,
                   df_filtered, filtered_years_df, output>>

DeriveDateColumns ==
    /\ pc = "dates"
    /\ filtered_df_20' = WithDateColumns(filtered_df_20)
    /\ pc' = "years"
    /\ UNCHANGED <<fire_csv, pollution_csv, df_fires, df_pollution, df_joined,
                   df_filtered, filtered_years_df, output>>

FilterYears ==
    /\ pc = "years"
    /\ filtered_years_df' = YearsBetween(filtered_df_20)
    /\ pc' = "range"
    /\ UNCHANGED <<fire_csv, pollution_csv, df_fires, df_pollution, df_joined,
                   df_filtered, filtered_df_20, output>>

FilterDateRange ==
    /\ pc = "range"
    /\ filtered_years_df' = StartDateBetween(filtered_years_df)
    /\ pc' = "write"
    /\ UNCHANGED <<fire_csv, pollution_csv, df_fires, df_pollution, df_joined,
                   df_filtered, filtered_df_20, output>>

(* write.mode("overwrite"): the destination is emptied first ... *)
WriteOverwrite ==
    /\ pc = "write"
    /\ output' = [exists |-> TRUE, complete |-> FALSE, run |-> "this", rows |-> <<>>]
    /\ pc' = "commit"
    /\ UNCHANGED <<fire_csv, pollution_csv, frames>>

(* ... and the rows are written and committed afterwards. *)
WriteCommit ==
    /\ pc = "commit"
    /\ output' = [exists |-> TRUE, complete |-> TRUE, run |-> "this",
                  rows |-> filtered_years_df]
    /\ pc' = "stop"
    /\ UNCHANGED <<fire_csv, pollution_csv, frames>>

(* spark.stop() *)
StopSession ==
    /\ pc = "stop"
    /\ pc' = "done"
    /\ UNCHANGED <<fire_csv, pollution_csv, frames, output>>

(* The run fails (an I/O error, a lost executor): the script ends with an *)
(* exception, its data frames are gone, the destination stays as it is.   *)
Abort ==
    /\ pc \notin {"done", "failed"}
    /\ pc' = "failed"
    /\ df_fires' = <<>>
    /\ df_pollution' = <<>>
    /\ df_joined' = <<>>
    /\ df_filtered' = <<>>
    /\ filtered_df_20' = <<>>
    /\ filtered_years_df' = <<>>
    /\ UNCHANGED <<fire_csv, pollution_csv, output>>

Next ==
    \/ LoadCSV
    \/ PreprocessPollution
    \/ FilterRelevantStates
    \/ \E i \in 1..Len(state_mapping) : StandardizeState(i)
    \/ RenameFireColumns
    \/ JoinOnState
    \/ FilterWindow
    \/ CalculateDistance
    \/ FilterDistance
    \/ DropMissingAQI
    \/ DeriveDateColumns
    \/ FilterYears
    \/ FilterDateRange
    \/ WriteOverwrite
    \/ WriteCommit
    \/ StopSession
    \/ Abort

Spec == Init /\ [][Next]_vars

----------------------------------------------------------------------------
(* Properties *)
Rows(df) == {df[i] : i \in DOMAIN df}

Count(df, r) == Cardinality({i \in DOMAIN df : df[i] = r})

SameRows(a, b) ==
    /\ Len(a) = Len(b)
    /\ \A r \in Rows(a) \cup Rows(b) : Count(a, r) = Count(b, r)

(* The rows the run has published. *)
Published == IF output.run = "this" THEN Rows(output.rows) ELSE {}

AfterDropna ==
    pc \in {"dates", "years", "range", "write", "commit", "stop", "done"}

AfterDates == pc \in {"years", "range", "write", "commit", "stop", "done"}

AfterRange == pc \in {"write", "commit", "stop", "done"}

(* frames and of the output, has Fire_State = State and a Date_Local at    *)
(* most 7 days away from start_date.                                       *)
Correlated(r) ==
    /\ r.Fire_State = r.State
    /\ ~IsNull(r.Date_Local)
    /\ ~IsNull(r.start_date)
    /\ Abs(Val(r.Date_Local) - Val(r.start_date)) <= 7

(* C1: every row the Correlator produces, and so every row of the later   *)
C1_JoinedRowsCorrelated ==
    \A r \in Rows(df_filtered) \cup Rows(filtered_df_20)
             \cup Rows(filtered_years_df) \cup Published : Correlated(r)

C1_Witness ==
    /\ pc = "done"
    /\ Published # {}
    /\ Len(df_filtered) < Len(df_joined)
    /\ Len(df_joined) < Len(df_fires) * Len(df_pollution)

(* equal state, both dates present and the reading within the closed       *)
(* window of 7 days around start_date, each pair once.                     *)
InWindow(f, p) ==
    /\ f.Fire_State = p.State
    /\ ~IsNull(f.start_date)
    /\ ~IsNull(p.Date_Local)
    /\ Val(p.Date_Local) \in (Val(f.start_date) - 7)..(Val(f.start_date) + 7)

WindowPairs ==
    {ij \in (DOMAIN df_fires) \X (DOMAIN df_pollution) :
        InWindow(df_fires[ij[1]], df_pollution[ij[2]])}

(* C2: the Correlator output holds exactly the (fire, reading) pairs with  *)
C2_CorrelatorExact ==
    pc = "distance" =>
        /\ Len(df_filtered) = Cardinality(WindowPairs)
        /\ \A ij \in WindowPairs :
              LET r == df_fires[ij[1]] @@ df_pollution[ij[2]]
              IN  Count(df_filtered, r) =
                     Cardinality({kl \in WindowPairs :
                                     df_fires[kl[1]] @@ df_pollution[kl[2]] = r})

C2_Witness ==
    /\ pc = "distance"
    /\ \E i, j \in DOMAIN df_filtered :
          /\ df_filtered[i].Fire_ID = df_filtered[j].Fire_ID
          /\ Val(df_filtered[i].Date_Local) = Val(df_filtered[i].start_date) - 7
          /\ Val(df_filtered[j].Date_Local) = Val(df_filtered[j].start_date) + 7

(* present, is a number and is below 20 miles.                            *)
Near(r) ==
    /\ ~IsNull(r.distance_miles)
    /\ ~Val(r.distance_miles).nan
    /\ Val(r.distance_miles).v < 20 * 1000

(* C3: every row that survives the distance filter has a distance that is *)
C3_SurvivorsWithin20Miles ==
    \A r \in Rows(filtered_df_20) \cup Rows(filtered_years_df) \cup Published :
        Near(r)

C3_Witness ==
    /\ pc = "dropna"
    /\ filtered_df_20 # <<>>
    /\ \E r \in Rows(df_filtered) : IsNull(r.distance_miles)
    /\ \E r \in Rows(df_filtered) :
          ~IsNull(r.distance_miles) /\ Val(r.distance_miles).v >= 20 * 1000

(* and SO2 AQI; a row that lacks one of the two is dropped.               *)
(* C4: after the drop of missing measurements every row has both CO AQI   *)
C4_BothAQIPresent ==
    /\ AfterDropna =>
          \A r \in Rows(filtered_df_20) : ~IsNull(r.CO_AQI) /\ ~IsNull(r.SO2_AQI)
    /\ \A r \in Rows(filtered_years_df) \cup Published :
          ~IsNull(r.CO_AQI) /\ ~IsNull(r.SO2_AQI)

C4_Witness ==
    /\ pc = "done"
    /\ Published # {}
    /\ \E r \in Rows(df_filtered) : IsNull(r.CO_AQI) /\ ~IsNull(r.SO2_AQI)

(* FIRE_YEAR is in 2008..2014 and its start_date is in 2014-05-02 ..      *)
(* 2014-06-02, both ends included.                                        *)
InRanges(r) ==
    /\ ~IsNull(r.FIRE_YEAR)
    /\ Val(r.FIRE_YEAR) \in 2008..2014
    /\ ~IsNull(r.start_date)
    /\ Val(r.start_date) >= DaysFromCivil(2014, 5, 2)
    /\ Val(r.start_date) <= DaysFromCivil(2014, 6, 2)

(* C5: after the two range restrictions a row is kept if and only if its  *)
C5_YearAndDateRange ==
    /\ AfterRange =>
          /\ \A r \in Rows(filtered_years_df) : InRanges(r)
          /\ \A r \in Rows(filtered_df_20) :
                InRanges(r) => r \in Rows(filtered_years_df)
    /\ \A r \in Published : InRanges(r)

C5_Witness ==
    /\ pc = "done"
    /\ \E r \in Published : r.start_date = Date(2014, 5, 2)
    /\ \E r \in Rows(filtered_df_20) :
          /\ r.FIRE_YEAR = Some(2015)
          /\ r.start_date = Date(2014, 5, 10)

(* C6: a failed run leaves no overwritten but incomplete destination. *)
C6_FailedRunPublishesNothing ==
    pc = "failed" => ~(output.run = "this" /\ ~output.complete)

(* days, between -7 and 7, and FIRE_MONTH is the month of start_date.     *)
IsMonthOf(m, days) ==
    \E y \in 2013..2015 : \E d \in 1..DaysInMonth(y, m) :
        DaysFromCivil(y, m, d) = days

Derived(r) ==
    /\ ~IsNull(r.date_diff_fire_pollution)
    /\ Val(r.date_diff_fire_pollution) = Val(r.Date_Local) - Val(r.start_date)
    /\ Val(r.date_diff_fire_pollution) \in (0 - 7)..7
    /\ ~IsNull(r.FIRE_MONTH)
    /\ Val(r.FIRE_MONTH) \in 1..12
    /\ IsMonthOf(Val(r.FIRE_MONTH), Val(r.start_date))

(* C7: date_diff_fire_pollution is Date_Local minus start_date in whole   *)
C7_DerivedColumns ==
    /\ AfterDates => \A r \in Rows(filtered_df_20) : Derived(r)
    /\ \A r \in Rows(filtered_years_df) \cup Published : Derived(r)

C7_Witness ==
    /\ pc = "done"
    /\ \E r \in Published : Val(r.date_diff_fire_pollution) < 0
    /\ \E r \in Published : Val(r.date_diff_fire_pollution) > 0

(* Arizona and leaves every other state alone, in whichever order the two *)
(* entries are applied, and a second application changes nothing.         *)
Normalized(st) ==
    CASE st = "CA" -> "California"
      [] st = "AZ" -> "Arizona"
      [] OTHER     -> st

(* C8: the loop over the mapping turns CA into California and AZ into     *)
C8_StateNormalized ==
    /\ pc = "rename" =>
          /\ Len(df_fires) = Len(fire_csv)
          /\ \A i \in DOMAIN df_fires :
                df_fires[i].STATE = Normalized(fire_csv[i].STATE)
          /\ ApplyEntry(ApplyEntry(fire_csv, 2), 1) = df_fires
          /\ ApplyEntry(ApplyEntry(df_fires, 1), 2) = df_fires
    /\ pc = "join" =>
          \A i \in DOMAIN df_fires :
             df_fires[i].Fire_State = Normalized(fire_csv[i].STATE)

C8_Witness ==
    /\ pc = "rename"
    /\ \E i, j \in DOMAIN fire_csv :
          /\ fire_csv[i].STATE = "AZ"
          /\ fire_csv[j].STATE = "NV"
          /\ df_fires[i].STATE = "Arizona"

(* fire and a station at the same point survive the distance filter.     *)
SamePoint(r) ==
    /\ ~IsNull(r.LATITUDE)
    /\ ~IsNull(r.LONGITUDE)
    /\ r.LATITUDE = r.Final_Latitude
    /\ r.LONGITUDE = r.Final_Longitude

(* C9: for present coordinates the distance is never not-a-number, and a *)
C9_DistanceNeverNaN ==
    pc = "dropna" =>
        \A r \in Rows(df_filtered) :
            /\ ~IsNull(r.distance_miles) => ~Val(r.distance_miles).nan
            /\ SamePoint(r) => \E q \in Rows(filtered_df_20) : SamePoint(q) /\ q = r

(* pairs are split in ranges nor on the order of the ranges, and a row    *)
(* passes or not whatever the other rows are.                             *)
Stages(df) ==
    StartDateBetween(YearsBetween(WithDateColumns(DropMissing(
        Within20Miles(WithDistances(WithinWindow(df)))))))

(* C10: the rows that pass the filters do not depend on how the joined    *)
C10_OrderIndependent ==
    pc = "write" =>
        LET alone == [i \in DOMAIN df_joined |-> Stages(<<df_joined[i]>>)]
        IN  /\ \A k \in 0..Len(df_joined) :
                  LET lo == Stages(SubSeq(df_joined, 1, k))
                      hi == Stages(SubSeq(df_joined, k + 1, Len(df_joined)))
                  IN  /\ SameRows(lo \o hi, filtered_years_df)
                      /\ SameRows(hi \o lo, filtered_years_df)
            /\ \A i \in DOMAIN df_joined :
                  /\ Len(alone[i]) <= 1
                  /\ \A r \in Rows(alone[i]) :
                        Count(filtered_years_df, r) =
                           Cardinality({j \in DOMAIN df_joined : alone[j] = alone[i]})
            /\ Len(filtered_years_df) =
                  Cardinality({i \in DOMAIN df_joined : alone[i] # <<>>})

C10_Witness ==
    /\ pc = "write"
    /\ Len(df_joined) >= 3
    /\ Len(filtered_years_df) >= 1
    /\ Len(filtered_years_df) < Len(df_joined)

====
